---------------------------- MODULE Spec2Model ----------------------------
(***************************************************************************)
(* AI-describer admin application: the dashboard loader and revert action  *)
(* (src/unnamed/part_000) and the generation page, its content normalizer  *)
(* and its publish workflow (src/app/routes/app.generate_contnet.jsx).     *)
(*                                                                         *)
(* A JavaScript string is a sequence of one-character tokens.  A token     *)
(* written "u201A" stands for the single character U+201A, and so on.      *)
(***************************************************************************)
EXTENDS Integers, Sequences, FiniteSets, TLC

VARIABLES
  \* Pagination Fetcher: one run of fetchPaginated against a paged source
  fVariant,     \* which loader's fetchPaginated runs: "dashboard" or "generate"
  fSource,      \* the nodes the catalog holds, in the catalog's order
  fPageSize,    \* the page size the catalog serves
  fpc,          \* "loop" (in the while loop), "returned", "threw"
  fItems,       \* let items
  fHasNextPage, \* let hasNextPage
  fAfterCursor, \* let afterCursor: 0 is null, i the cursor of the i-th node
  fRequests,    \* the after argument of every request issued, in order
  fFailed,      \* whether a page request failed
  \* Content Normalizer: one call of getGeneratedText
  nResponse,    \* the response passed
  nContentType, \* the contentType passed
  nStateType,   \* state.contentType of the render the call is made in
  nResult,      \* the value returned, NotCalled before the call
  \* Dashboard: the catalog and the content store it reads, and the page
  catalog,      \* item id -> the catalog's descriptionHtml and seo.description
  store,        \* the records GET /contents returns, in its order
  rows,         \* const [items, setItems]: the dashboard rows
  counts,       \* productCount, collectionCount, modifiedCount, totalItems
  reverting,    \* const [reverting, setReverting]
  inflight,     \* revert requests submitted and not yet handled by the action
  toast,        \* the last shopify.toast.show: its kind
  dLast,        \* the last thing the dashboard did
  \* Generation page: the session of ProductsPage
  state,        \* const [state, setState]
  pageToast,    \* the toast the last step raised with showToast
  genCall,      \* the generate exchange in flight, NoCall when there is none
  pubCall,      \* the publish whose content-store request is in flight
  updates,      \* update requests posted to the page's own action, not yet answered
  gLast,        \* the last thing the page did
  \* The generation page's action: one request handled
  aBody,        \* const body = await request.json()
  aInput,       \* variables.input of the mutation sent, NoInput when none was
  aResult,      \* what the mutation brought back, NoResult when none was sent
  aResponse     \* the answer returned, NotHandled before the action runs

fetchVars == <<fVariant, fSource, fPageSize, fpc, fItems, fHasNextPage,
               fAfterCursor, fRequests, fFailed>>
normVars == <<nResponse, nContentType, nStateType, nResult>>
dashVars == <<catalog, store, rows, counts, reverting, inflight, toast, dLast>>
pageVars == <<state, pageToast, genCall, pubCall, updates, gLast>>
actionVars == <<aBody, aInput, aResult, aResponse>>
vars == <<fetchVars, normVars, dashVars, pageVars, actionVars>>
notFetch == <<normVars, dashVars, pageVars, actionVars>>
notNorm == <<fetchVars, dashVars, pageVars, actionVars>>
notDash == <<fetchVars, normVars, pageVars, actionVars>>
notPage == <<fetchVars, normVars, dashVars, actionVars>>

-----------------------------------------------------------------------------
(* Bounds of the model *)

\* longest paged source the fetchers are run against
MaxItems == 4
\* largest page size the paged source serves
MaxPage == 3
\* number of pieces an enumerated normalizer input is made of
MaxPieces == 2
\* number of records the content store returns to one dashboard load
MaxRecords == 2
\* number of revert requests that may be in flight to the revert action
MaxInflight == 2
\* number of update requests of the generation page that may await their answer
MaxUpdates == 1
\* longest text the edit field of the generation page is let to hold: every
\* round of Save and Cancel wraps the text in one more paragraph block
MaxText == 11

-----------------------------------------------------------------------------
(* Strings *)

\* characters String.prototype.trim and the regex class \s treat as whitespace
WS == {" ", "\n", "\t"}

\* the three characters the source spells its bullet marker with
Bullet == <<"u201A", "u00C4", "u00A2">>
\* the three characters of the first alternative of the quote regex
LowQuote == <<"u201A", "u00C4", "u00FB">>

UpperCase == <<"A", "B", "D", "G", "H", "W">>
LowerCase == <<"a", "b", "d", "g", "h", "w">>

Drop(s, n) == IF n >= Len(s) THEN <<>> ELSE SubSeq(s, n + 1, Len(s))
Take(s, n) == IF n >= Len(s) THEN s ELSE SubSeq(s, 1, n)
StartsWith(s, p) == Len(s) >= Len(p) /\ SubSeq(s, 1, Len(p)) = p

RECURSIVE Concat(_)
Concat(ss) == IF ss = <<>> THEN <<>> ELSE Head(ss) \o Concat(Tail(ss))

\* String.prototype.toLowerCase on one character
LowerChar(c) ==
  IF \E i \in 1..Len(UpperCase) : UpperCase[i] = c
  THEN LowerCase[CHOOSE i \in 1..Len(UpperCase) : UpperCase[i] = c]
  ELSE c

ToLowerCase(s) == [i \in 1..Len(s) |-> LowerChar(s[i])]

RECURSIVE TrimStart(_)
TrimStart(s) ==
  IF s # <<>> /\ Head(s) \in WS THEN TrimStart(Tail(s)) ELSE s

RECURSIVE TrimEnd(_)
TrimEnd(s) ==
  IF s # <<>> /\ s[Len(s)] \in WS THEN TrimEnd(SubSeq(s, 1, Len(s) - 1)) ELSE s

Trim(s) == TrimEnd(TrimStart(s))

\* index of the first c in s, 0 when there is none
RECURSIVE IndexOf(_, _)
IndexOf(s, c) ==
  IF s = <<>> THEN 0
  ELSE IF Head(s) = c THEN 1
  ELSE LET r == IndexOf(Tail(s), c) IN IF r = 0 THEN 0 ELSE r + 1

\* a text left with its tags
KeepTags(s) == s

\* s.replace(/<[^>]*>/g, '')
RECURSIVE StripTags(_)
StripTags(s) ==
  IF s = <<>> THEN <<>>
  ELSE IF Head(s) = "<" /\ IndexOf(Tail(s), ">") > 0
       THEN StripTags(Drop(Tail(s), IndexOf(Tail(s), ">")))
       ELSE <<Head(s)>> \o StripTags(Tail(s))


-----------------------------------------------------------------------------
(* Content Normalizer: getGeneratedText *)

\* result.replace(/,,/g, " ")
RECURSIVE ReplaceCommaPairs(_)
ReplaceCommaPairs(s) ==
  IF s = <<>> THEN <<>>
  ELSE IF StartsWith(s, <<",", ",">>) THEN <<" ">> \o ReplaceCommaPairs(Drop(s, 2))
  ELSE <<Head(s)>> \o ReplaceCommaPairs(Tail(s))

\* result.replace(/,\s*/g, " ")
RECURSIVE ReplaceCommaSpace(_)
ReplaceCommaSpace(s) ==
  IF s = <<>> THEN <<>>
  ELSE IF Head(s) = "," THEN <<" ">> \o ReplaceCommaSpace(TrimStart(Tail(s)))
  ELSE <<Head(s)>> \o ReplaceCommaSpace(Tail(s))

\* result.replace(/(U+201A U+00C4 U+00FB)|"|"|"|"/g, "")
RECURSIVE RemoveQuotes(_)
RemoveQuotes(s) ==
  IF s = <<>> THEN <<>>
  ELSE IF StartsWith(s, LowQuote) THEN RemoveQuotes(Drop(s, 3))
  ELSE IF Head(s) = "\"" THEN RemoveQuotes(Tail(s))
  ELSE <<Head(s)>> \o RemoveQuotes(Tail(s))

\* result.replace(/\[|\]/g, "")
RemoveBrackets(s) == SelectSeq(s, LAMBDA c : c \notin {"[", "]"})

\* the four "basic formatting" replacements, in the order of the source
BasicCleanup(s) ==
  RemoveBrackets(RemoveQuotes(ReplaceCommaSpace(ReplaceCommaPairs(s))))

\* result.replace(/\\n/g, ' '): a backslash character followed by the letter n
RECURSIVE ReplaceEscapedNewlines(_)
ReplaceEscapedNewlines(s) ==
  IF s = <<>> THEN <<>>
  ELSE IF StartsWith(s, <<"\\", "n">>) THEN <<" ">> \o ReplaceEscapedNewlines(Drop(s, 2))
  ELSE <<Head(s)>> \o ReplaceEscapedNewlines(Tail(s))

\* result.replace(/\\/g, '')
RemoveBackslashes(s) == SelectSeq(s, LAMBDA c : c # "\\")

\* s.replace(/\s+/g, ' ')
RECURSIVE CollapseSpaces(_)
CollapseSpaces(s) ==
  IF s = <<>> THEN <<>>
  ELSE IF Head(s) \in WS THEN <<" ">> \o CollapseSpaces(TrimStart(s))
  ELSE <<Head(s)>> \o CollapseSpaces(Tail(s))

\* the seo-description branch of getGeneratedText
SeoText(s) ==
  CollapseSpaces(Trim(BasicCleanup(RemoveBackslashes(
    ReplaceEscapedNewlines(StripTags(s))))))

\* the characters the regex dot matches from the start of s: up to the line end
RECURSIVE LineRest(_)
LineRest(s) ==
  IF s = <<>> \/ Head(s) = "\n" THEN <<>> ELSE <<Head(s)>> \o LineRest(Tail(s))

\* whether /(bullet).+/ matches at the start of s
BulletMatchAt(s) ==
  StartsWith(s, Bullet) /\ LineRest(Drop(s, Len(Bullet))) # <<>>

\* the text that match is
BulletMatch(s) == Bullet \o LineRest(Drop(s, Len(Bullet)))

\* result.match(/(bullet).+/g): the matches, in order (<<>> for JavaScript's null)
RECURSIVE MatchBullets(_)
MatchBullets(s) ==
  IF s = <<>> THEN <<>>
  ELSE IF BulletMatchAt(s)
       THEN <<BulletMatch(s)>> \o MatchBullets(Drop(s, Len(BulletMatch(s))))
       ELSE MatchBullets(Tail(s))

\* result.replace(/(bullet).+/g, "")
RECURSIVE RemoveBulletLines(_)
RemoveBulletLines(s) ==
  IF s = <<>> THEN <<>>
  ELSE IF BulletMatchAt(s) THEN RemoveBulletLines(Drop(s, Len(BulletMatch(s))))
  ELSE <<Head(s)>> \o RemoveBulletLines(Tail(s))

TagP == <<"<", "p", ">">>
TagPEnd == <<"<", "/", "p", ">">>
TagLi == <<"<", "l", "i", ">">>
TagLiEnd == <<"<", "/", "l", "i", ">">>
TagUl == <<"<", "u", "l", ">">>
TagUlEnd == <<"<", "/", "u", "l", ">">>

\* `<li>${point.replace(/(bullet)\s*/, "")}</li>`, point being a bullet match
ListItem(point) == TagLi \o TrimStart(Drop(point, Len(Bullet))) \o TagLiEnd

\* `<ul>${listItems}</ul>`
ListBlock(points) ==
  TagUl \o Concat([i \in 1..Len(points) |-> ListItem(points[i])]) \o TagUlEnd

\* s.split("\n")
RECURSIVE SplitLines(_)
SplitLines(s) ==
  LET i == IndexOf(s, "\n") IN
  IF i = 0 THEN <<s>> ELSE <<Take(s, i - 1)>> \o SplitLines(Drop(s, i))

\* the filter of the paragraph pipeline that lets every line through but the
\* empty ones and the ones starting with <li>
KeepParagraph(para) == para # <<>> /\ ~StartsWith(para, TagLi)

\* .split("\n").map(trim).filter(...).map(para => `<p>${para}</p>`).join("")
Paragraphs(s) ==
  LET lines == SplitLines(s)
      trimmed == [i \in 1..Len(lines) |-> Trim(lines[i])]
      kept == SelectSeq(trimmed, KeepParagraph)
  IN Concat([i \in 1..Len(kept) |-> TagP \o kept[i] \o TagPEnd])

\* the description branch of getGeneratedText
DescriptionText(s) ==
  LET bulletPoints == MatchBullets(s) IN
  IF bulletPoints # <<>>
  THEN Paragraphs(RemoveBulletLines(s) \o ListBlock(bulletPoints))
  ELSE Paragraphs(s)

\* the text getGeneratedText starts from: the response when it is a string, its
\* message when that is a string; a missing response serializes "" to two quotes
ResponseText(response) ==
  IF response.type = "none" THEN <<"\"", "\"">> ELSE response.text

\* getGeneratedText(response, contentType), read in a render whose
\* state.contentType is stateContentType
GetGeneratedText(response, contentType, stateContentType) ==
  LET result == BasicCleanup(ResponseText(response)) IN
  IF contentType = "seo-description" \/ stateContentType = "seo-description"
  THEN SeoText(result)
  ELSE DescriptionText(result)


-----------------------------------------------------------------------------
(* Pagination Fetcher: fetchPaginated of the two loaders *)

\* the catalog's answer to { first, after }: the page of nodes after the cursor
PageEdges(source, first, after) ==
  SubSeq(source, after + 1, IF after + first > Len(source) THEN Len(source) ELSE after + first)

\* pageInfo.hasNextPage of that answer
PageHasNext(source, first, after) == after + first < Len(source)

\* a loop that keeps the last page only: items = edges.map(edge => edge.node)
AccumulateReplacing(items, edges) == edges

\* items = [...items, ...edges.map(edge => edge.node)]
Accumulate(items, edges) == items \o edges

\* a loop that never moves its cursor: afterCursor = null
NextCursorNull(edges) == 0

\* afterCursor = edges.length > 0 ? edges[edges.length - 1].cursor : null
NextCursor(edges) == IF Len(edges) > 0 THEN edges[Len(edges)] ELSE 0

\* the ways a page request fails: admin.graphql or response.json() throws,
\* the answer carries errors and no data, the answer lacks data[dataPath]
FailureKinds == {"throw", "errors", "malformed"}

\* what a failed request does to the loop: the dashboard's copy catches and
\* breaks, the generation page's copy has no try and lets the exception out
OnPageFailure(variant) == IF variant = "dashboard" THEN "returned" ELSE "threw"

\* one turn of the while loop whose request is answered with a page
FetchPage ==
  /\ fpc = "loop" /\ fHasNextPage
  /\ LET edges == PageEdges(fSource, fPageSize, fAfterCursor)
         more == PageHasNext(fSource, fPageSize, fAfterCursor)
     IN /\ fRequests' = Append(fRequests, fAfterCursor)
        /\ fItems' = Accumulate(fItems, edges)
        /\ fHasNextPage' = more
        /\ fAfterCursor' = NextCursor(edges)
        /\ fpc' = IF more THEN "loop" ELSE "returned"
  /\ UNCHANGED <<fVariant, fSource, fPageSize, fFailed, notFetch>>

\* one turn of the while loop whose request fails
FetchPageFails ==
  /\ fpc = "loop" /\ fHasNextPage
  /\ \E kind \in FailureKinds :
       /\ fRequests' = Append(fRequests, fAfterCursor)
       /\ fFailed' = TRUE
       /\ fpc' = OnPageFailure(fVariant)
  /\ UNCHANGED <<fVariant, fSource, fPageSize, fItems, fHasNextPage,
                 fAfterCursor, notFetch>>

\* the fetcher is not running
FetchIdle ==
  /\ fVariant = "dashboard" /\ fSource = <<>> /\ fPageSize = 1
  /\ fpc = "returned" /\ fItems = <<>> /\ fHasNextPage = FALSE
  /\ fAfterCursor = 0 /\ fRequests = <<>> /\ fFailed = FALSE

\* let items = []; let hasNextPage = true; let afterCursor = null
FetchInit ==
  /\ fVariant \in {"dashboard", "generate"}
  /\ \E n \in 0..MaxItems : fSource = [i \in 1..n |-> i]
  /\ fPageSize \in 1..MaxPage
  /\ fpc = "loop" /\ fItems = <<>> /\ fHasNextPage = TRUE
  /\ fAfterCursor = 0 /\ fRequests = <<>> /\ fFailed = FALSE

-----------------------------------------------------------------------------
(* Content Normalizer: calls of getGeneratedText on bounded inputs *)

NotCalled == <<"not called">>

\* the pieces enumerated responses are made of
Pieces ==
  { Bullet, LowQuote, <<"u2022">>, <<"a">>, <<" ">>, <<"\n">>, <<",">>,
    <<"<", "b", ">">>, <<"<">>, <<">">>, <<"\\">>, <<"n">>, <<"\"">>, <<"[">> }

RECURSIVE PieceTexts(_)
PieceTexts(n) ==
  IF n = 0 THEN { <<>> }
  ELSE PieceTexts(n - 1) \cup { t \o q : t \in PieceTexts(n - 1), q \in Pieces }

\* the response of the end-to-end scenario, spelt with the bullet marker the
\* source matches: (bullet) Durable \n (bullet) Dishwasher safe
MugBullets ==
  Bullet \o <<" ", "D", "u", "r", "a", "b", "l", "e", "\n">> \o Bullet \o
  <<" ", "D", "i", "s", "h", "w", "a", "s", "h", "e", "r", " ", "s", "a", "f", "e">>

\* the same response spelt with the character U+2022
MugBulletsU2022 ==
  <<"u2022", " ", "D", "u", "r", "a", "b", "l", "e", "\n", "u2022">> \o
  <<" ", "D", "i", "s", "h", "w", "a", "s", "h", "e", "r", " ", "s", "a", "f", "e">>

\* <ul><li>Durable</li><li>Dishwasher safe</li></ul>
MugList ==
  TagUl \o TagLi \o <<"D", "u", "r", "a", "b", "l", "e">> \o TagLiEnd \o TagLi \o
  <<"D", "i", "s", "h", "w", "a", "s", "h", "e", "r", " ", "s", "a", "f", "e">> \o
  TagLiEnd \o TagUlEnd

\* a paragraph line, then two bullet lines
IntroBullets == <<"a", "\n">> \o Bullet \o <<"b", "\n">> \o Bullet \o <<"d">>

\* the characters of the quote regex's first alternative, nested three deep
NestedQuotes ==
  <<"u201A", "u201A", "u201A", "u00C4", "u00FB", "u00C4", "u00FB", "u00C4", "u00FB">>
\* a tag around a backslash, a tag inside angle brackets, an escaped newline
\* between a tag and a comma
TagTexts ==
  { <<"<", "\\", ">">>, <<"<", "<", "b", ">", ">">>,
    <<"<", "b", ">", "a", "\\", "n", ",", "[", "a", "]">> }
NormTexts ==
  PieceTexts(MaxPieces) \cup {MugBullets, MugBulletsU2022, IntroBullets, NestedQuotes}
    \cup TagTexts

NoResponse == [type |-> "none", text |-> <<>>]

\* a string, or an object whose message is a string
Responses(texts) == [type : {"string", "message"}, text : texts]

ContentTypes == {"description", "seo-description"}

NormIdle ==
  /\ nResponse = NoResponse /\ nContentType = "description"
  /\ nStateType = "description" /\ nResult = NotCalled

NormInit ==
  /\ nResponse \in Responses(NormTexts) \cup {NoResponse}
  /\ nContentType \in ContentTypes
  /\ nStateType \in ContentTypes
  /\ nResult = NotCalled

\* getGeneratedText(response, contentType)
CallGetGeneratedText ==
  /\ nResult = NotCalled
  /\ nResult' = GetGeneratedText(nResponse, nContentType, nStateType)
  /\ UNCHANGED <<nResponse, nContentType, nStateType, notNorm>>

-----------------------------------------------------------------------------
(* Reconciliation Engine: the dashboard loader *)

HelloWorld == <<"H", "e", "l", "l", "o", " ", "W", "o", "r", "l", "d">>
HelloGlobe == <<"H", "e", "l", "l", "o", " ", "G", "l", "o", "b", "e">>
PHelloWorld == TagP \o HelloWorld \o TagPEnd
PHelloGlobe == TagP \o HelloGlobe \o TagPEnd

\* a || b on strings, a missing value being the empty string
Or(a, b) == IF a # <<>> THEN a ELSE b

\* isContentReverted(current, original)
IsContentReverted(current, original) ==
  IF current = <<>> \/ original = <<>> THEN FALSE
  ELSE ToLowerCase(Trim(StripTags(current))) = ToLowerCase(Trim(StripTags(original)))

\* the nodes the two fetchPaginated calls of the loader return
Products == <<"p1">>
Collections == <<"c1">>
ItemIds == {"p1", "c1"}
ItemType(id) == IF id = "p1" THEN "product" ELSE "collection"

\* a find that matches on the item alone: oc => oc.originId === id
FindRecordAnyKind(records, id, kind) ==
  LET hits == SelectSeq(records, LAMBDA oc : oc.originId = id)
  IN IF hits = <<>> THEN <<>> ELSE <<Head(hits)>>

\* originalContents.find(oc => oc.originId === id && oc.contentType === kind):
\* the first match, <<>> when find returns undefined
FindRecord(records, id, kind) ==
  LET hits == SelectSeq(records, LAMBDA oc : oc.originId = id /\ oc.contentType = kind)
  IN IF hits = <<>> THEN <<>> ELSE <<Head(hits)>>

\* originalContent?.originalContentHtml || originalContent?.originalContent
OriginalOf(found) ==
  IF found = <<>> THEN <<>>
  ELSE Or(found[1].originalContentHtml, found[1].originalContent)

\* the body of products.map / collections.map: <<>> for a null, else the row
RowOf(id, type, item, records) ==
  LET originalContent == FindRecord(records, id, "description")
      originalseoContent == FindRecord(records, id, "seo-description")
      hasAiDescription == originalContent # <<>>
      hasAiSeo == originalseoContent # <<>>
  IN IF originalContent = <<>> /\ originalseoContent = <<>> THEN <<>>
     ELSE << [ id |-> id,
               type |-> type,
               currentDescriptionHtml |-> item.descriptionHtml,
               currentSeoDescription |-> item.seo,
               hasAiDescription |-> hasAiDescription,
               hasAiSeo |-> hasAiSeo,
               originalDescription |->
                 IF hasAiDescription THEN OriginalOf(originalContent) ELSE <<>>,
               originalSeoDescription |->
                 IF hasAiSeo THEN originalseoContent[1].originalContent ELSE <<>>,
               isDescriptionReverted |->
                 IF hasAiDescription
                 THEN IsContentReverted(item.descriptionHtml, OriginalOf(originalContent))
                 ELSE FALSE,
               isSeoReverted |->
                 IF hasAiSeo
                 THEN IsContentReverted(item.seo, originalseoContent[1].originalContent)
                 ELSE FALSE ] >>

\* const allItems = [...products.map(...).filter(Boolean),
\*                   ...collections.map(...).filter(Boolean)]
AllItems(cat, records) ==
  Concat([i \in 1..Len(Products) |->
            RowOf(Products[i], "product", cat[Products[i]], records)]) \o
  Concat([i \in 1..Len(Collections) |->
            RowOf(Collections[i], "collection", cat[Collections[i]], records)])

\* nodes.filter(n => originalContents.some(oc => oc.originId === n.id)).length
CountWithRecord(nodes, records) ==
  Cardinality({i \in 1..Len(nodes) :
                 \E j \in 1..Len(records) : records[j].originId = nodes[i]})

\* the counts of the object the loader returns
LoaderCounts(cat, records) ==
  [ totalItems |-> Len(AllItems(cat, records)),
    productCount |-> CountWithRecord(Products, records),
    collectionCount |-> CountWithRecord(Collections, records),
    modifiedCount |-> Len(AllItems(cat, records)) ]

NoReverting == [id |-> "none", kind |-> "none"]
NoRequest ==
  [ itemId |-> "none", itemType |-> "none", originalContent |-> <<>>,
    contentType |-> "none", current |-> FALSE ]
\* what the dashboard did last, for a step that handled no request
Did(op) == [op |-> op, req |-> NoRequest, outcome |-> "none"]
NoCounts == [totalItems |-> 0, productCount |-> 0, collectionCount |-> 0, modifiedCount |-> 0]

\* every request still in flight is one of a page that is gone, or that the
\* fetcher has resubmitted over: its answer will be dropped
Abandon(reqs) == [i \in 1..Len(reqs) |-> [reqs[i] EXCEPT !.current = FALSE]]

\* a full page load: the loader runs and ContentDashboard mounts on its data
Load ==
  /\ rows' = AllItems(catalog, store)
  /\ counts' = LoaderCounts(catalog, store)
  /\ reverting' = NoReverting
  /\ inflight' = Abandon(inflight)
  /\ toast' = "none"
  /\ dLast' = Did("loaded")
  /\ UNCHANGED <<catalog, store, notDash>>

-----------------------------------------------------------------------------
(* Revert Workflow: handleRevertDescription, handleRevertSeo, the revert    *)
(* action and the effect on fetcher.data                                   *)

\* fetcher.submit(request): the fetcher drops its submission in flight, if any
Submit(reqs, request) == Append(Abandon(reqs), request)

\* loading={reverting === `${item.id}-description`}, and the same for SEO: the
\* button of the row and kind being reverted shows loading and takes no click
ShowsLoading(item, kind) == reverting = [id |-> item.id, kind |-> kind]

\* handlers without their first test
NeverAlreadyReverted(item, kind) == FALSE

\* a second test that looks at the flag alone
NothingToRevertByFlag(item, kind) ==
  IF kind = "description" THEN ~item.hasAiDescription ELSE ~item.hasAiSeo

\* item.isDescriptionReverted / item.isSeoReverted: the first test of the handlers
AlreadyReverted(item, kind) ==
  IF kind = "description" THEN item.isDescriptionReverted ELSE item.isSeoReverted

\* !item.hasAiDescription || !item.originalDescription, and the same for SEO
NothingToRevert(item, kind) ==
  IF kind = "description"
  THEN ~item.hasAiDescription \/ item.originalDescription = <<>>
  ELSE ~item.hasAiSeo \/ item.originalSeoDescription = <<>>

\* the object the handler passes to fetcher.submit
RevertRequest(item, kind) ==
  [ itemId |-> item.id, itemType |-> item.type,
    originalContent |->
      IF kind = "description" THEN item.originalDescription
      ELSE item.originalSeoDescription,
    contentType |-> kind, current |-> TRUE ]

\* what the dashboard did last, for a handler called on a row
DidOn(op, item, kind) ==
  [ op |-> op, outcome |-> "none",
    req |-> [NoRequest EXCEPT !.itemId = item.id, !.contentType = kind] ]

\* handleRevertDescription(item), item being the row at index i
HandleRevertDescription ==
  \E i \in 1..Len(rows) :
    LET item == rows[i] IN
    /\ ~ShowsLoading(item, "description")
    /\ IF AlreadyReverted(item, "description")
       THEN /\ toast' = "info"
            /\ dLast' = DidOn("already-reverted", item, "description")
            /\ UNCHANGED <<reverting, inflight>>
       ELSE IF NothingToRevert(item, "description")
       THEN /\ toast' = "error"
            /\ dLast' = DidOn("no-original", item, "description")
            /\ UNCHANGED <<reverting, inflight>>
       ELSE /\ Len(inflight) < MaxInflight
            /\ reverting' = [id |-> item.id, kind |-> "description"]
            /\ inflight' = Submit(inflight, RevertRequest(item, "description"))
            /\ dLast' = DidOn("submitted", item, "description")
            /\ UNCHANGED toast
    /\ UNCHANGED <<catalog, store, rows, counts, notDash>>

\* handleRevertSeo(item), item being the row at index i
HandleRevertSeo ==
  \E i \in 1..Len(rows) :
    LET item == rows[i] IN
    /\ ~ShowsLoading(item, "seo")
    /\ IF AlreadyReverted(item, "seo")
       THEN /\ toast' = "info"
            /\ dLast' = DidOn("already-reverted", item, "seo")
            /\ UNCHANGED <<reverting, inflight>>
       ELSE IF NothingToRevert(item, "seo")
       THEN /\ toast' = "error"
            /\ dLast' = DidOn("no-original", item, "seo")
            /\ UNCHANGED <<reverting, inflight>>
       ELSE /\ Len(inflight) < MaxInflight
            /\ reverting' = [id |-> item.id, kind |-> "seo"]
            /\ inflight' = Submit(inflight, RevertRequest(item, "seo"))
            /\ dLast' = DidOn("submitted", item, "seo")
            /\ UNCHANGED toast
    /\ UNCHANGED <<catalog, store, rows, counts, notDash>>

\* what the catalog does with an update mutation: applies it and reports no
\* user errors, reports user errors, or the request throws
CatalogOutcomes == {"accepted", "userErrors", "throws"}

\* whether the mutation the action sends selects userErrors: the collection
\* SEO mutation selects only collection { id title seo { title description } }
SelectsUserErrors(itemType, contentType) ==
  ~(itemType = "collection" /\ contentType = "seo")

\* the answer of the revert action to a request, the catalog doing `outcome`
RevertResponse(req, outcome) ==
  IF req.itemId = "none" \/ req.originalContent = <<>>
  THEN [success |-> FALSE, why |-> "invalid"]
  ELSE IF outcome = "throws"
  THEN [success |-> FALSE, why |-> "exception"]
  ELSE IF ~SelectsUserErrors(req.itemType, req.contentType)
  THEN \* responseJson.data[updateKey].userErrors is undefined: .length throws
       [success |-> FALSE, why |-> "exception"]
  ELSE IF outcome = "userErrors"
  THEN [success |-> FALSE, why |-> "userErrors"]
  ELSE [success |-> TRUE, why |-> "reverted"]

\* the catalog after the mutation of the request
CatalogAfter(cat, req, outcome) ==
  IF outcome # "accepted" \/ req.itemId = "none" \/ req.originalContent = <<>>
  THEN cat
  ELSE IF req.contentType = "description"
  THEN [cat EXCEPT ![req.itemId].descriptionHtml = req.originalContent]
  ELSE [cat EXCEPT ![req.itemId].seo = req.originalContent]

\* an effect that leaves the row as it was
RevertedRowUntouched(prevItem, req) == prevItem

\* the row the effect writes for a row whose id is the answer's item id
RevertedRow(prevItem, req) ==
  IF req.contentType = "description"
  THEN [prevItem EXCEPT !.isDescriptionReverted = TRUE,
                        !.currentDescriptionHtml = req.originalContent]
  ELSE [prevItem EXCEPT !.isSeoReverted = TRUE,
                        !.currentSeoDescription = req.originalContent]

\* setItems(prevItems => prevItems.map(...))
RowsAfterRevert(prevItems, req) ==
  [i \in 1..Len(prevItems) |->
     IF prevItems[i].id = req.itemId THEN RevertedRow(prevItems[i], req)
     ELSE prevItems[i]]

RemoveAt(s, i) == SubSeq(s, 1, i - 1) \o SubSeq(s, i + 1, Len(s))

\* the action handles the request at index i; when the fetcher still waits
\* for it, fetcher.data becomes its answer and the effect on fetcher.data runs
RevertExchange ==
  \E i \in 1..Len(inflight), outcome \in CatalogOutcomes :
    LET req == inflight[i]
        data == RevertResponse(req, outcome)
    IN /\ catalog' = CatalogAfter(catalog, req, outcome)
       /\ inflight' = RemoveAt(inflight, i)
       /\ IF ~req.current
          THEN /\ dLast' = [op |-> "dropped", req |-> req, outcome |-> outcome]
               /\ UNCHANGED <<rows, reverting, toast>>
          ELSE IF data.success
          THEN /\ toast' = "success"
               /\ reverting' = NoReverting
               /\ rows' = RowsAfterRevert(rows, req)
               /\ dLast' = [op |-> "reverted", req |-> req, outcome |-> outcome]
          ELSE /\ toast' = "error"
               /\ reverting' = NoReverting
               /\ dLast' = [op |-> "revert-failed", req |-> req, outcome |-> outcome]
               /\ UNCHANGED rows
       /\ UNCHANGED <<store, counts, notDash>>

\* the content store's records: the two kinds the application writes and one
\* it does not, with an original text in neither, one or both of its forms
OriginalForms ==
  { <<<<>>, <<>>>>, <<HelloWorld, <<>>>>, <<<<" ">>, <<>>>>, <<HelloGlobe, PHelloWorld>> }
StoreRecords(kinds, forms) ==
  { [ originId |-> id, contentType |-> k, originalContent |-> f[1],
      originalContentHtml |-> f[2] ] : id \in ItemIds, k \in kinds, f \in forms }

RECURSIVE SeqsUpTo(_, _)
SeqsUpTo(S, n) ==
  IF n = 0 THEN { <<>> }
  ELSE SeqsUpTo(S, n - 1) \cup
       { Append(t, x) : t \in { u \in SeqsUpTo(S, n - 1) : Len(u) = n - 1 }, x \in S }

\* what the catalog may hold for an item: descriptionHtml and seo.description
CatalogFields ==
  { [descriptionHtml |-> <<>>, seo |-> <<>>],
    [descriptionHtml |-> PHelloWorld, seo |-> HelloWorld],
    [descriptionHtml |-> PHelloGlobe, seo |-> ToLowerCase(HelloWorld)],
    [descriptionHtml |-> TagP \o TagPEnd, seo |-> <<" ">>] }

\* before the page is loaded
PageUnloaded ==
  /\ rows = <<>> /\ counts = NoCounts /\ reverting = NoReverting
  /\ inflight = <<>> /\ toast = "none" /\ dLast = Did("none")

DashIdle ==
  /\ catalog = [id \in ItemIds |-> [descriptionHtml |-> <<>>, seo |-> <<>>]]
  /\ store = <<>>
  /\ PageUnloaded

\* any catalog and any content store, for the loader alone
LoadInit ==
  /\ catalog \in [ItemIds -> CatalogFields]
  /\ store \in SeqsUpTo(StoreRecords({"description", "seo-description", "other"},
                                     OriginalForms), MaxRecords)
  /\ PageUnloaded

\* the records the content store may hold for an item and a kind: none, or one
\* with an original text in one of the forms
Slot(id, kind, forms) ==
  { <<>> } \cup
  { << [ originId |-> id, contentType |-> kind, originalContent |-> f[1],
         originalContentHtml |-> f[2] ] >> : f \in forms }

\* a catalog holding AI text, the product's description being AI text or the
\* original, and a store of description and seo-description records, for the
\* revert workflow
DashInit ==
  /\ catalog \in { [id \in ItemIds |->
                      [descriptionHtml |-> IF id = "p1" THEN html ELSE PHelloGlobe,
                       seo |-> HelloGlobe]] : html \in {PHelloGlobe, PHelloWorld} }
  /\ store \in
       { a \o b \o c \o d :
           a \in Slot("p1", "description", { <<<<>>, <<>>>>, <<HelloWorld, <<>>>> }),
           b \in Slot("p1", "seo-description", { <<<<>>, <<>>>>, <<HelloWorld, <<>>>> }),
           c \in Slot("c1", "description", { <<HelloWorld, <<>>>> }),
           d \in Slot("c1", "seo-description", { <<HelloWorld, <<>>>> }) }
  /\ PageUnloaded

-----------------------------------------------------------------------------
(* Generation/Publish Workflow: the session of the generation page *)

NoItem == [id |-> "none", description |-> <<>>, descriptionHtml |-> <<>>, seo |-> <<>>]

\* the nodes the page's loader returned: a product with a description and an
\* SEO description, a collection with neither
LoaderItem(id) ==
  IF id = "p1"
  THEN [id |-> "p1", description |-> HelloWorld, descriptionHtml |-> PHelloWorld,
        seo |-> HelloWorld]
  ELSE [id |-> "c1", description |-> <<>>, descriptionHtml |-> <<>>, seo |-> <<>>]

\* const items = state.pageType === "product" ? products : collections
ItemsOfPageType(pageType) == IF pageType = "product" THEN Products ELSE Collections

\* useState({ pageType: "product", contentType: "description", ... })
InitialState ==
  [ pageType |-> "product", contentType |-> "description", selectedItem |-> NoItem,
    seoKeywords |-> <<>>, isLoading |-> FALSE, apiResponse |-> NoResponse,
    error |-> "none", isEditing |-> FALSE, editedContent |-> <<>>,
    isPublishing |-> FALSE ]

NoToast == [message |-> "none", isError |-> FALSE]
\* showToast(message, isError = false)
ShowToast(message, isError) == [message |-> message, isError |-> isError]

NoCall == [running |-> FALSE, contentType |-> "none", itemId |-> "none"]
\* what the page did last, and how the exchange it ended had gone
Page(op) == [op |-> op, outcome |-> "none"]
NoPublish ==
  [ running |-> FALSE, item |-> NoItem, contentType |-> "none", pageType |-> "none",
    generatedContent |-> <<>>, originalContent |-> <<>> ]

\* the texts the AI service answers with, and the texts the merchant types
AiTexts == { <<"<", "b", ">", "a">> }
EditTexts == { <<>>, <<"e">> }
KeywordTexts == { <<"k">> }
\* the same with the texts that hold no keyword: nothing, and a blank
BlankableKeywordTexts == { <<>>, <<" ">>, <<"k">> }

\* a truthy apiResponse: an object, or a non-empty string
Truthy(response) ==
  response.type = "message" \/ (response.type = "string" /\ response.text # <<>>)

\* resetState's updates, applied to st
ResetOf(st) ==
  [st EXCEPT !.selectedItem = NoItem, !.apiResponse = NoResponse, !.error = "none",
             !.isEditing = FALSE, !.editedContent = <<>>]

\* handlePageTypeChange(value)
HandlePageTypeChange ==
  \E value \in {"product", "collection"} :
    /\ value # state.pageType
    /\ state' = ResetOf([state EXCEPT !.pageType = value])
    /\ gLast' = Page("control")
    /\ UNCHANGED updates
    /\ pageToast' = NoToast
    /\ UNCHANGED <<genCall, pubCall, notPage>>

\* handleContentTypeChange(value)
HandleContentTypeChange ==
  \E value \in ContentTypes :
    /\ value # state.contentType
    /\ state' = [state EXCEPT !.contentType = value, !.apiResponse = NoResponse,
                              !.editedContent = <<>>]
    /\ gLast' = Page("control")
    /\ UNCHANGED updates
    /\ pageToast' = NoToast
    /\ UNCHANGED <<genCall, pubCall, notPage>>

\* handleInputChange(value) with a value that trims to nothing
HandleInputChange ==
  /\ state.selectedItem # NoItem
  /\ state' = [state EXCEPT !.selectedItem = NoItem]
  /\ gLast' = Page("control")
  /\ UNCHANGED updates
  /\ pageToast' = NoToast
  /\ UNCHANGED <<genCall, pubCall, notPage>>

\* handleSuggestionClick(item), item being one of the suggestions
HandleSuggestionClick ==
  \E i \in 1..Len(ItemsOfPageType(state.pageType)) :
    /\ state' = [state EXCEPT
                   !.selectedItem = LoaderItem(ItemsOfPageType(state.pageType)[i]),
                   !.apiResponse = NoResponse, !.error = "none",
                   !.isEditing = FALSE, !.editedContent = <<>>]
    /\ gLast' = Page("control")
    /\ UNCHANGED updates
    /\ pageToast' = NoToast
    /\ UNCHANGED <<genCall, pubCall, notPage>>

\* the onChange of the SEO Keywords field
ChangeKeywords(texts) ==
  \E value \in texts :
    /\ value # state.seoKeywords
    /\ state' = [state EXCEPT !.seoKeywords = value]
    /\ gLast' = Page("control")
    /\ UNCHANGED updates
    /\ pageToast' = NoToast
    /\ UNCHANGED <<genCall, pubCall, notPage>>

\* resetState, from the delete icon of the selected item's card
ResetState ==
  /\ state.selectedItem # NoItem
  /\ state' = ResetOf(state)
  /\ gLast' = Page("control")
  /\ UNCHANGED updates
  /\ pageToast' = NoToast
  /\ UNCHANGED <<genCall, pubCall, notPage>>

\* clearSelection, from the Clear Selection action of the same card
ClearSelection ==
  /\ state.selectedItem # NoItem
  /\ state' = [state EXCEPT !.selectedItem = NoItem, !.error = "none"]
  /\ gLast' = Page("control")
  /\ UNCHANGED updates
  /\ pageToast' = NoToast
  /\ UNCHANGED <<genCall, pubCall, notPage>>

\* the same test without the trim: !state.seoKeywords
KeywordsMissingUntrimmed(st) == st.seoKeywords = <<>>

\* !state.seoKeywords.trim()
KeywordsMissing(st) == Trim(st.seoKeywords) = <<>>

\* handleGenerateContent up to its await: the two validations, then the
\* request to the AI service.  A button that shows loading takes no click; the
\* validations answer a call made with nothing selected or no keywords
HandleGenerateContent ==
  /\ ~state.isLoading
  /\ IF state.selectedItem = NoItem
     THEN /\ state' = [state EXCEPT !.error = "select-item"]
          /\ gLast' = Page("generate-no-item")
          /\ UNCHANGED genCall
     ELSE IF KeywordsMissing(state)
     THEN /\ state' = [state EXCEPT !.error = "enter-keywords"]
          /\ gLast' = Page("generate-no-keywords")
          /\ UNCHANGED genCall
     ELSE /\ state' = [state EXCEPT !.isLoading = TRUE, !.error = "none",
                                    !.apiResponse = NoResponse, !.isEditing = FALSE,
                                    !.editedContent = <<>>]
          /\ genCall' = [running |-> TRUE, contentType |-> state.contentType,
                          itemId |-> state.selectedItem.id]
          /\ gLast' = Page("generate-sent")
  /\ UNCHANGED updates
  /\ pageToast' = NoToast
  /\ UNCHANGED <<pubCall, notPage>>

\* how the exchange with the AI service ends: a success answer, a non-success
\* answer with statusCode 429, another non-success answer, an answer of either
\* kind whose body response.json() cannot parse, a fetch that throws
GenerateOutcomes == {"ok", "rate-limited", "refused", "unparsable", "throws"}

\* a mapping without the test of statusCode
GenerateErrorUnmapped(outcome) ==
  IF outcome \in {"throws", "unparsable"} THEN "exception" ELSE "api-failed"

\* the error the catch sets: the message of what fetch or response.json()
\* threw, the usage limit message, or "API request failed: " with data.message
\* and the status text.  The body is parsed before response.ok is tested
GenerateError(outcome) ==
  IF outcome \in {"throws", "unparsable"} THEN "exception"
  ELSE IF outcome = "rate-limited" THEN "usage-limit"
  ELSE "api-failed"

\* a handler without its finally block
FinallyNothing(st) == st

\* finally { updateState({ isLoading: false }) }
Finally(st) == [st EXCEPT !.isLoading = FALSE]

\* handleGenerateContent after its await
GenerateReturns ==
  /\ genCall.running
  /\ \E outcome \in GenerateOutcomes, text \in AiTexts :
       LET data == [type |-> "message", text |-> text]
           generatedText == GetGeneratedText(data, genCall.contentType, genCall.contentType)
       IN IF outcome = "ok"
          THEN /\ state' = Finally([state EXCEPT !.apiResponse = data,
                                                 !.editedContent = generatedText])
               /\ pageToast' = ShowToast("generated", FALSE)
               /\ gLast' = [op |-> "generate-returned", outcome |-> outcome]
          ELSE /\ state' = Finally([state EXCEPT !.error = GenerateError(outcome)])
               /\ gLast' = [op |-> "generate-returned", outcome |-> outcome]
               /\ pageToast' = NoToast
  /\ genCall' = NoCall
  /\ UNCHANGED updates
  /\ UNCHANGED <<pubCall, notPage>>

\* the card of the generated content is rendered, and in view mode
ViewingContent == Truthy(state.apiResponse) /\ ~state.isEditing
\* the same card in edit mode
EditingContent == Truthy(state.apiResponse) /\ state.isEditing

\* getGeneratedText(state.apiResponse, state.contentType) in the current render
CurrentText(st) == GetGeneratedText(st.apiResponse, st.contentType, st.contentType)

\* handleEditClick
HandleEditClick ==
  /\ ViewingContent
  /\ Len(CurrentText(state)) <= MaxText
  /\ state' = [state EXCEPT !.isEditing = TRUE,
                            !.editedContent = Or(state.editedContent, CurrentText(state))]
  /\ gLast' = Page("control")
  /\ UNCHANGED updates
  /\ pageToast' = NoToast
  /\ UNCHANGED <<genCall, pubCall, notPage>>

\* the onChange of the edit field
ChangeEditedContent ==
  /\ EditingContent
  /\ \E value \in EditTexts :
       /\ value # state.editedContent
       /\ state' = [state EXCEPT !.editedContent = value]
  /\ gLast' = Page("control")
  /\ UNCHANGED updates
  /\ pageToast' = NoToast
  /\ UNCHANGED <<genCall, pubCall, notPage>>

\* handleSaveEdit
HandleSaveEdit ==
  /\ EditingContent
  /\ state' = [state EXCEPT !.isEditing = FALSE,
                            !.apiResponse = [type |-> "string", text |-> state.editedContent]]
  /\ pageToast' = ShowToast("saved", FALSE)
  /\ gLast' = Page("control")
  /\ UNCHANGED updates
  /\ UNCHANGED <<genCall, pubCall, notPage>>

\* handleCancelEdit
HandleCancelEdit ==
  /\ EditingContent
  /\ Len(CurrentText(state)) <= MaxText
  /\ state' = [state EXCEPT !.isEditing = FALSE, !.editedContent = CurrentText(state)]
  /\ gLast' = Page("control")
  /\ UNCHANGED updates
  /\ pageToast' = NoToast
  /\ UNCHANGED <<genCall, pubCall, notPage>>

\* !state.apiResponse && !state.editedContent
NothingToPublish(st) == ~Truthy(st.apiResponse) /\ st.editedContent = <<>>

\* let oldContent: the value of the field of the selected item that the
\* publish is about to replace
OldContent(st) ==
  IF st.contentType = "seo-description" THEN st.selectedItem.seo
  ELSE Or(st.selectedItem.descriptionHtml, st.selectedItem.description)

\* an update that leaves the selected item as it was
UpdatedItemUnchanged(item, contentType, generatedContent) == item

\* const updatedItem = { ...state.selectedItem } with the published field set
UpdatedItem(item, contentType, generatedContent) ==
  IF contentType = "seo-description"
  THEN [item EXCEPT !.seo = generatedContent]
  ELSE [item EXCEPT !.description = generatedContent,
                    !.descriptionHtml = generatedContent]

\* a handler without its first validation
SomethingSelected(st) == FALSE

\* !state.selectedItem, the first validation of handlePublish
NothingSelected(st) == st.selectedItem = NoItem

\* handlePublish up to its first await: the two validations, then the request
\* to the content store.  The button takes no click while it shows loading
HandlePublish ==
  /\ ~state.isPublishing
  /\ IF NothingSelected(state)
     THEN /\ state' = [state EXCEPT !.error = "select-publish"]
          /\ gLast' = Page("publish-no-item")
          /\ UNCHANGED pubCall
     ELSE IF NothingToPublish(state)
     THEN /\ state' = [state EXCEPT !.error = "generate-first"]
          /\ gLast' = Page("publish-no-content")
          /\ UNCHANGED pubCall
     ELSE /\ ViewingContent
          /\ Len(updates) < MaxUpdates
          /\ state' = [state EXCEPT !.isPublishing = TRUE, !.error = "none"]
          /\ pubCall' =
               [ running |-> TRUE, item |-> state.selectedItem,
                 contentType |-> state.contentType, pageType |-> state.pageType,
                 generatedContent |-> Or(state.editedContent, CurrentText(state)),
                 originalContent |-> OldContent(state) ]
          /\ gLast' = Page("publish-sent")
  /\ UNCHANGED updates
  /\ pageToast' = NoToast
  /\ UNCHANGED <<genCall, notPage>>

\* how the request to the content store ends: a success answer, a non-success
\* answer, an exception from fetch or from reading the answer
RecordOutcomes == {"ok", "refused", "throws"}

\* a handler that does not look at the answer of the content store
RecordAlwaysSucceeded(outcome) == TRUE

\* externalResponse.ok, no exception having been thrown
RecordSucceeded(outcome) == outcome = "ok"

\* const updatePayload: the body handlePublish posts to the page's own action,
\* its text under seoDescription or under description
UpdatePayload(call) ==
  [ itemId |-> call.item.id, pageType |-> call.pageType,
    field |-> IF call.contentType = "seo-description" THEN "seoDescription"
              ELSE "description",
    text |-> call.generatedContent ]

\* handlePublish after its first await: on success the selected item is
\* updated and the update request is sent; otherwise the catch block runs
RecordReturns ==
  /\ pubCall.running
  /\ \E outcome \in RecordOutcomes :
       /\ IF RecordSucceeded(outcome)
          THEN /\ state' = [state EXCEPT
                   !.selectedItem = UpdatedItem(pubCall.item, pubCall.contentType,
                                                pubCall.generatedContent),
                   !.isPublishing = FALSE]
               /\ pageToast' = ShowToast("published", FALSE)
               /\ updates' = Append(updates, UpdatePayload(pubCall))
          ELSE /\ state' = [state EXCEPT !.error = "publish-failed",
                                         !.isPublishing = FALSE]
               /\ pageToast' = ShowToast("publish-failed", TRUE)
               /\ UNCHANGED updates
       /\ gLast' = [op |-> "record-returned", outcome |-> outcome]
  /\ pubCall' = NoPublish
  /\ UNCHANGED <<genCall, notPage>>

\* how the request to the page's own action ends for handlePublish: a success
\* answer, a non-success answer, an exception from fetch or from reading it
UpdateOutcomes == {"ok", "refused", "throws"}

\* a handler that takes the optimistic update back and reports the failure
AfterUpdateRollingBack(st, outcome) ==
  IF outcome = "ok" THEN st
  ELSE [st EXCEPT !.selectedItem = LoaderItem(st.selectedItem.id),
                  !.error = "publish-failed"]

\* the session after the second await of handlePublish: the three branches
\* only write to the console
AfterUpdate(st, outcome) == st

\* handlePublish after its second await, for the update request at index i
UpdateReturns ==
  \E i \in 1..Len(updates), outcome \in UpdateOutcomes :
    /\ updates' = RemoveAt(updates, i)
    /\ state' = AfterUpdate(state, outcome)
    /\ pageToast' = NoToast
    /\ gLast' = [op |-> "update-returned", outcome |-> outcome]
    /\ UNCHANGED <<genCall, pubCall, notPage>>

PageIdle ==
  /\ state = InitialState /\ pageToast = NoToast /\ genCall = NoCall
  /\ pubCall = NoPublish /\ updates = <<>> /\ gLast = Page("none")

\* the page as it mounts, the catalog holding what the loader returned
PageInit == PageIdle

-----------------------------------------------------------------------------
(* Generation/Publish Workflow: the action of the generation page *)

\* a field of the request body: missing from it, or holding a text
Absent == [present |-> FALSE, text |-> <<>>]
Given(text) == [present |-> TRUE, text |-> text]

\* description && ..., seoDescription && ...: a missing field and an empty
\* text are both falsy
TruthyField(field) == field.present /\ field.text # <<>>

\* ...(description && { descriptionHtml: description }): the field of the
\* input, missing when the value is falsy
SpreadIf(field) == IF TruthyField(field) THEN Given(field.text) ELSE Absent

NoInput == [id |-> "none", descriptionHtml |-> Absent, seo |-> Absent]

\* variables.input of both mutations
MutationInput(body) ==
  [ id |-> body.itemId,
    descriptionHtml |-> SpreadIf(body.description),
    seo |-> SpreadIf(body.seoDescription) ]

\* action !== "updateContent" || !itemId || !pageType
InvalidParameters(body) ==
  body.action # "updateContent" \/ body.itemId = "none" \/ body.pageType = "none"

\* a user error of the catalog, its field and its message
UserError(field, message) == [field |-> field, message |-> message]
\* the lists of user errors the catalog may report
UserErrorLists ==
  { <<UserError(<<"t">>, <<"m">>)>>,
    <<UserError(<<"t">>, <<"m">>), UserError(<<"s">>, <<"n">>)>> }

\* what the mutation brings back: the request throws, result.data holds
\* nothing for the mutation, or it holds the mutation's data with its userErrors
NoResult == [kind |-> "none", userErrors |-> <<>>]
Threw == [kind |-> "threw", userErrors |-> <<>>]
NoData == [kind |-> "no-data", userErrors |-> <<>>]
Data(userErrors) == [kind |-> "data", userErrors |-> userErrors]

\* what the catalog may do with the mutation.  It applies a productUpdate to
\* a product and a collectionUpdate to a collection only, and then reports no
\* user errors
MutationResults(body) ==
  {Threw, NoData} \cup { Data(errs) : errs \in UserErrorLists } \cup
  (IF ItemType(body.itemId) = body.pageType THEN {Data(<<>>)} ELSE {})

\* whether the catalog applied the input
Accepted(result) == result.kind = "data" /\ result.userErrors = <<>>

\* the item of the catalog after a mutation with the input is applied: the
\* fields the input holds are written, the others stay
ApplyInput(cat, input) ==
  [cat EXCEPT ![input.id] =
     [ descriptionHtml |-> IF input.descriptionHtml.present
                           THEN input.descriptionHtml.text ELSE @.descriptionHtml,
       seo |-> IF input.seo.present THEN input.seo.text ELSE @.seo ]]

\* the updatedItem of an answer that has none
NoUpdatedItem == [id |-> "none", descriptionHtml |-> <<>>, seo |-> <<>>]
NotHandled ==
  [status |-> 0, success |-> FALSE, why |-> "none", error |-> <<>>,
   updatedItem |-> NoUpdatedItem]
\* json({ success: false, error }, { status })
Answer(status, why) == [NotHandled EXCEPT !.status = status, !.why = why]

\* data.userErrors.map(err => `${err.field}: ${err.message}`).join(", ")
RECURSIVE JoinUserErrors(_)
JoinUserErrors(errs) ==
  IF errs = <<>> THEN <<>>
  ELSE LET first == Head(errs).field \o <<":", " ">> \o Head(errs).message
       IN IF Len(errs) = 1 THEN first
          ELSE first \o <<",", " ">> \o JoinUserErrors(Tail(errs))

\* an action that does not look at data.userErrors
UpdateAnswerUnchecked(result, item) ==
  CASE result.kind = "threw" -> Answer(500, "exception")
    [] result.kind = "no-data" -> Answer(500, "no-data")
    [] OTHER -> [ status |-> 200, success |-> TRUE, why |-> "updated",
                  error |-> <<>>, updatedItem |-> item ]

\* the answer of the action to what the mutation brought back, item being
\* data[pageType]
UpdateAnswer(result, item) ==
  CASE result.kind = "threw" -> Answer(500, "exception")
    [] result.kind = "no-data" -> Answer(500, "no-data")
    [] Len(result.userErrors) > 0 ->
         [Answer(400, "userErrors") EXCEPT !.error = JoinUserErrors(result.userErrors)]
    [] OTHER -> [ status |-> 200, success |-> TRUE, why |-> "updated",
                  error |-> <<>>, updatedItem |-> item ]

\* the item the catalog returns with the mutation's data
ReturnedItem(cat, id) ==
  [id |-> id, descriptionHtml |-> cat[id].descriptionHtml, seo |-> cat[id].seo]

\* export async function action: the whole handler on the request body
UpdateAction ==
  /\ aResponse = NotHandled
  /\ IF InvalidParameters(aBody)
     THEN /\ aResponse' = Answer(400, "invalid-parameters")
          /\ UNCHANGED <<aInput, aResult, catalog>>
     ELSE IF aBody.pageType \notin {"product", "collection"}
     THEN /\ aResponse' = Answer(400, "invalid-page-type")
          /\ UNCHANGED <<aInput, aResult, catalog>>
     ELSE \E result \in MutationResults(aBody) :
            /\ aInput' = MutationInput(aBody)
            /\ aResult' = result
            /\ catalog' = IF Accepted(result)
                          THEN ApplyInput(catalog, MutationInput(aBody))
                          ELSE catalog
            /\ aResponse' = UpdateAnswer(result, ReturnedItem(catalog', aBody.itemId))
  /\ UNCHANGED <<aBody, store, rows, counts, reverting, inflight, toast, dLast>>
  /\ UNCHANGED <<fetchVars, normVars, pageVars>>

\* the values a field of the body may have
FieldValues == { Absent, Given(<<>>), Given(HelloGlobe) }
\* the bodies a request may carry
UpdateBodies ==
  [ action : {"updateContent", "revert"}, itemId : {"none", "p1", "c1"},
    pageType : {"none", "product", "collection", "page"},
    description : FieldValues, seoDescription : FieldValues ]

\* the catalog a request of the generation page meets
PublishedCatalog ==
  [id \in ItemIds |-> [descriptionHtml |-> PHelloWorld, seo |-> HelloWorld]]

ActionIdle ==
  /\ aBody = [ action |-> "updateContent", itemId |-> "none", pageType |-> "none",
               description |-> Absent, seoDescription |-> Absent ]
  /\ aInput = NoInput /\ aResult = NoResult /\ aResponse = NotHandled

ActionInit ==
  /\ aBody \in UpdateBodies
  /\ aInput = NoInput /\ aResult = NoResult /\ aResponse = NotHandled
  /\ catalog = PublishedCatalog /\ store = <<>> /\ PageUnloaded

-----------------------------------------------------------------------------
(* Specifications *)

InitFetch == FetchInit /\ NormIdle /\ DashIdle /\ PageIdle /\ ActionIdle
NextFetch == FetchPage \/ FetchPageFails
SpecFetch == InitFetch /\ [][NextFetch]_vars

InitNorm == NormInit /\ FetchIdle /\ DashIdle /\ PageIdle /\ ActionIdle
NextNorm == CallGetGeneratedText
SpecNorm == InitNorm /\ [][NextNorm]_vars

InitLoad == LoadInit /\ FetchIdle /\ NormIdle /\ PageIdle /\ ActionIdle
NextLoad == Load
SpecLoad == InitLoad /\ [][NextLoad]_vars

InitDash == DashInit /\ FetchIdle /\ NormIdle /\ PageIdle /\ ActionIdle
NextDash == Load \/ HandleRevertDescription \/ HandleRevertSeo \/ RevertExchange
SpecDash == InitDash /\ [][NextDash]_vars

Init == PageInit /\ FetchIdle /\ NormIdle /\ DashIdle /\ ActionIdle
Next ==
  \/ HandlePageTypeChange \/ HandleContentTypeChange \/ HandleInputChange
  \/ HandleSuggestionClick \/ ChangeKeywords(KeywordTexts) \/ ResetState
  \/ ClearSelection
  \/ HandleGenerateContent \/ GenerateReturns \/ HandleEditClick
  \/ ChangeEditedContent \/ HandleSaveEdit \/ HandleCancelEdit \/ HandlePublish
  \/ RecordReturns \/ UpdateReturns
Spec == Init /\ [][Next]_vars

\* the same page, generating and editing only, the keywords field taking the
\* blank texts too
NextGen ==
  \/ HandlePageTypeChange \/ HandleContentTypeChange \/ HandleInputChange
  \/ HandleSuggestionClick \/ ChangeKeywords(BlankableKeywordTexts) \/ ResetState
  \/ ClearSelection \/ HandleGenerateContent \/ GenerateReturns \/ HandleEditClick
  \/ ChangeEditedContent \/ HandleSaveEdit \/ HandleCancelEdit
SpecGen == Init /\ [][NextGen]_vars

\* the action of the generation page, on one request
InitUpdate == ActionInit /\ FetchIdle /\ NormIdle /\ PageIdle
NextUpdate == UpdateAction
SpecUpdate == InitUpdate /\ [][NextUpdate]_vars

\* the merchant on one of the two pages, every exchange in flight returning:
\* the generation page runs while the dashboard is not mounted, the dashboard
\* while the generation page is in its initial state
InitLive ==
  \/ Init
  \/ /\ InitDash /\ catalog["p1"].descriptionHtml = PHelloGlobe
     /\ Len(store) = 3 /\ store[3].originId = "c1"
     /\ \A i \in 1..Len(store) : store[i].originalContent # <<>>
NextPageLive ==
  \/ HandlePageTypeChange \/ HandleSuggestionClick \/ ChangeKeywords(KeywordTexts)
  \/ ClearSelection \/ HandleGenerateContent \/ GenerateReturns
  \/ HandlePublish \/ RecordReturns \/ UpdateReturns
NextLive == (DashIdle /\ NextPageLive) \/ (PageIdle /\ NextDash)
SpecLive ==
  /\ InitLive /\ [][NextLive]_vars
  /\ WF_vars(DashIdle /\ GenerateReturns) /\ WF_vars(DashIdle /\ RecordReturns)
  /\ WF_vars(DashIdle /\ UpdateReturns) /\ WF_vars(PageIdle /\ RevertExchange)

-----------------------------------------------------------------------------
(* Properties *)

\* C1: when no request fails, the list fetchPaginated returns is the whole
\* source, every item once and in the source's order, whatever the number of
\* items and the page size
C1_ReturnsFullSequence == (fpc = "returned" /\ ~fFailed) => fItems = fSource

\* C1: a fetch that returned a source of three items or more in several pages
C1_Witness ==
  /\ fpc = "returned" /\ ~fFailed
  /\ Len(fRequests) >= 2 /\ Len(fSource) >= 3

\* C2: in both loaders a failed page request ends the fetch with a return of the
\* items accumulated so far; the failure never reaches the caller
C2_FailureNeverPropagates ==
  fFailed => /\ fpc = "returned"
             /\ fItems = SubSeq(fSource, 1, Len(fItems))

\* the records of the store for an item and a kind
RecordsOf(id, kind) ==
  { j \in 1..Len(store) : store[j].originId = id /\ store[j].contentType = kind }
\* the rows of the dashboard for an item
RowsOf(id) == { i \in 1..Len(rows) : rows[i].id = id }

\* C3: after a load an item has a row exactly when the store holds a description
\* or an seo-description record for it, it has one row at most, and in every row
\* hasAiDescription and hasAiSeo tell which of the two kinds has a record
C3_RowIffRecord ==
  dLast.op = "loaded" =>
    /\ \A id \in ItemIds :
         /\ (RowsOf(id) # {}) <=>
              (RecordsOf(id, "description") # {} \/ RecordsOf(id, "seo-description") # {})
         /\ Cardinality(RowsOf(id)) <= 1
    /\ \A i \in 1..Len(rows) :
         /\ rows[i].hasAiDescription <=> (RecordsOf(rows[i].id, "description") # {})
         /\ rows[i].hasAiSeo <=> (RecordsOf(rows[i].id, "seo-description") # {})

\* C3: a load that emitted a row with a description record and no
\* seo-description record, and no row for the other item, which has a record of
\* another kind only
C3_Witness ==
  /\ dLast.op = "loaded"
  /\ \E i \in 1..Len(rows) : rows[i].hasAiDescription /\ ~rows[i].hasAiSeo
  /\ \E id \in ItemIds :
       /\ RowsOf(id) = {}
       /\ \E j \in 1..Len(store) : store[j].originId = id

\* strip tags, trim, lower-case
Normalized(s) == ToLowerCase(Trim(StripTags(s)))
\* the original value the first record of the kind holds for the item
OriginalValue(id, kind) ==
  LET rec == store[CHOOSE j \in RecordsOf(id, kind) : \A k \in RecordsOf(id, kind) : j <= k]
  IN IF kind = "description" THEN Or(rec.originalContentHtml, rec.originalContent)
     ELSE rec.originalContent
\* the catalog's current value of the field of the kind
CurrentValue(id, kind) ==
  IF kind = "description" THEN catalog[id].descriptionHtml ELSE catalog[id].seo
\* the reverted flag of the kind in a row
RevertedFlag(row, kind) ==
  IF kind = "description" THEN row.isDescriptionReverted ELSE row.isSeoReverted

\* C4: after a load, for every row and every kind that has a record,
\* the reverted flag is true exactly when the current value and the original
\* value are equal after stripping tags, trimming and lower-casing, empty values
\* included
C4_RevertedIffNormalizedEqual ==
  dLast.op = "loaded" =>
    \A i \in 1..Len(rows), kind \in {"description", "seo-description"} :
      RecordsOf(rows[i].id, kind) # {} =>
        (RevertedFlag(rows[i], kind) <=>
           Normalized(CurrentValue(rows[i].id, kind)) =
             Normalized(OriginalValue(rows[i].id, kind)))

\* C5: for every item type and kind, when the catalog accepts the mutation of a
\* revert request the fetcher still waits for, the action answers success and
\* the row of the item has the reverted flag of the kind set and its current
\* value of the kind overwritten with the original
C5_AcceptedRevertSucceeds ==
  (dLast.op \in {"reverted", "revert-failed"} /\ dLast.outcome = "accepted") =>
    /\ dLast.op = "reverted"
    /\ \A i \in 1..Len(rows) :
         rows[i].id = dLast.req.itemId =>
           IF dLast.req.contentType = "description"
           THEN /\ rows[i].isDescriptionReverted
                /\ rows[i].currentDescriptionHtml = dLast.req.originalContent
           ELSE /\ rows[i].isSeoReverted
                /\ rows[i].currentSeoDescription = dLast.req.originalContent

\* <p>a</p><ul><li>b</li><li>d</li></ul>
IntroList ==
  TagP \o <<"a">> \o TagPEnd \o TagUl \o TagLi \o <<"b">> \o TagLiEnd \o
  TagLi \o <<"d">> \o TagLiEnd \o TagUlEnd

\* C6: in description mode the output is the paragraph blocks followed by one
\* list block that no paragraph block wraps: the list alone for a response whose
\* lines are all bullets, the paragraph and then the list for a response of a
\* paragraph line and two bullet lines
C6_ParagraphsThenList ==
  (nResult # NotCalled /\ nContentType = "description" /\ nStateType = "description") =>
    /\ nResponse.text = MugBullets => nResult = MugList
    /\ nResponse.text = IntroBullets => nResult = IntroList

\* the value the loader returned for the field that a publish of the content
\* type replaces
PreAiValue(id, contentType) ==
  IF contentType = "seo-description" THEN LoaderItem(id).seo
  ELSE Or(LoaderItem(id).descriptionHtml, LoaderItem(id).description)

\* C7: the originalContent of every request to the content store is the value
\* the field had before any publish of the session, never a published AI text
C7_BaselineIsPreAi ==
  pubCall.running =>
    pubCall.originalContent = PreAiValue(pubCall.item.id, pubCall.contentType)

\* a text holds a character that is not white space
HasKeyword(text) == \E i \in 1..Len(text) : text[i] \notin WS

\* C8: a call of Generate with no item selected, or with keywords that are empty
\* or white space only, sets a validation error, leaves isLoading false and
\* the staged content as it was, and starts no exchange; a call that starts the
\* exchange with the AI service has an item selected and a keyword
C8_GenerateValidation ==
  [][ /\ gLast'.op \in {"generate-no-item", "generate-no-keywords"} =>
           /\ state'.error \in {"select-item", "enter-keywords"}
           /\ ~state'.isLoading
           /\ state'.apiResponse = state.apiResponse
           /\ state'.editedContent = state.editedContent
           /\ state'.isEditing = state.isEditing
           /\ genCall' = genCall /\ pubCall' = pubCall /\ updates' = updates
      /\ gLast'.op = "generate-sent" =>
           /\ state.selectedItem # NoItem
           /\ HasKeyword(state.seoKeywords) ]_vars

\* C8: Generate was called with an item selected, content staged and a blank in
\* the keywords field, and was refused
C8_Witness ==
  /\ gLast.op = "generate-no-keywords"
  /\ state.selectedItem # NoItem
  /\ state.seoKeywords = <<" ">>
  /\ Truthy(state.apiResponse)
  /\ state.error = "enter-keywords" /\ ~genCall.running

\* the row of the dashboard the handler of the last step was called on
LastRow(rs) == rs[CHOOSE i \in 1..Len(rs) : rs[i].id = dLast'.req.itemId]

\* C9: Revert on a row whose reverted flag of the kind is set raises the
\* informational notice and submits no request, so that the catalog, the rows
\* and the requests in flight stay as they were; a request is submitted only
\* for a row whose flag is not set
C9_RevertIdempotent ==
  [][ /\ dLast'.op = "already-reverted" =>
           /\ toast' = "info"
           /\ inflight' = inflight /\ catalog' = catalog
           /\ rows' = rows /\ reverting' = reverting
      /\ dLast'.op \in {"submitted", "no-original"} =>
           ~RevertedFlag(LastRow(rows), dLast'.req.contentType) ]_vars

\* C9: the description of the product was reverted in this session, the catalog
\* now holding the stored original, and Revert was called on it again
C9_Witness ==
  /\ dLast.op = "already-reverted"
  /\ dLast.req.itemId = "p1" /\ dLast.req.contentType = "description"
  /\ catalog["p1"].descriptionHtml = HelloWorld
  /\ toast = "info" /\ inflight = <<>>

\* C10: when the request to the content store is refused or throws, an error is
\* set and the error toast raised, the selected item stays as it was, the
\* success toast is not raised and no update request is posted
C10_RecordFailureAborts ==
  [][ (gLast'.op = "record-returned" /\ gLast'.outcome # "ok") =>
        /\ state'.error = "publish-failed"
        /\ state'.selectedItem = state.selectedItem
        /\ pageToast' = ShowToast("publish-failed", TRUE)
        /\ updates' = updates
        /\ ~state'.isPublishing ]_vars

\* C10: the content store refused the request of a publish on a selected item
C10_Witness ==
  /\ gLast.op = "record-returned" /\ gLast.outcome = "refused"
  /\ state.selectedItem # NoItem
  /\ state.error = "publish-failed"

\* C11: when the update request is refused or throws, the selected item keeps
\* the published text, the error field stays as it was and no toast is raised;
\* the step that posted the request had already ended the publish, isPublishing
\* false
C11_UpdateFailureIsSilent ==
  [][ /\ (gLast'.op = "update-returned" /\ gLast'.outcome # "ok") =>
           /\ state'.selectedItem = state.selectedItem
           /\ state'.error = state.error
           /\ state'.isPublishing = state.isPublishing
           /\ pageToast' = NoToast
      /\ Len(updates') > Len(updates) => ~state'.isPublishing ]_vars

\* C11: the update request of a publish was refused, the selected item holding
\* a published description and the session showing no error
C11_Witness ==
  /\ gLast.op = "update-returned" /\ gLast.outcome = "refused"
  /\ state.selectedItem.id = "p1"
  /\ state.selectedItem.descriptionHtml # LoaderItem("p1").descriptionHtml
  /\ state.error = "none" /\ ~state.isPublishing

\* the field of an item that a publish of the content type writes
PublishedField(item, contentType) ==
  IF contentType = "seo-description" THEN item.seo ELSE item.descriptionHtml

\* C12: an update request is posted only by the step in which the request to the
\* content store of a publish returns with success, the same step having
\* written the published text to the selected item; the selected item takes a
\* published text in no other step
C12_PublishOrdering ==
  [][ /\ Len(updates') > Len(updates) =>
           /\ pubCall.running /\ ~pubCall'.running
           /\ gLast'.op = "record-returned" /\ gLast'.outcome = "ok"
           /\ state'.selectedItem.id = pubCall.item.id
           /\ PublishedField(state'.selectedItem, pubCall.contentType) =
                pubCall.generatedContent
           /\ updates'[Len(updates')].text = pubCall.generatedContent
      /\ (gLast'.op = "record-returned" /\ gLast'.outcome = "ok") =>
           Len(updates') = Len(updates) + 1
      /\ (state'.selectedItem # state.selectedItem /\ gLast'.op # "control") =>
           (gLast'.op = "record-returned" /\ gLast'.outcome = "ok") ]_vars

\* C12: a publish whose request to the content store succeeded, its update
\* request posted and the selected item holding the published text
C12_Witness ==
  /\ gLast.op = "record-returned" /\ gLast.outcome = "ok"
  /\ Len(updates) = 1
  /\ updates[1].itemId = state.selectedItem.id
  /\ updates[1].text = PublishedField(state.selectedItem, "description")
  /\ updates[1].field = "description"

\* C13: at most one revert request is outstanding at any time: no Revert, on
\* any row or kind, starts an exchange while another has not returned
C13_OneExchangeAtATime == Len(inflight) <= 1

\* the number of rows of a type
RowsOfType(type) == Cardinality({ i \in 1..Len(rows) : rows[i].type = type })

\* C14: after a load, whatever the catalog and the records, productCount is the
\* number of product rows, collectionCount the number of collection rows, and
\* their sum, modifiedCount and totalItems are all the number of rows
C14_CountsAgreeWithRows ==
  dLast.op = "loaded" =>
    /\ counts.productCount = RowsOfType("product")
    /\ counts.collectionCount = RowsOfType("collection")
    /\ counts.productCount + counts.collectionCount = counts.modifiedCount
    /\ counts.modifiedCount = counts.totalItems
    /\ counts.totalItems = Len(rows)

\* the call is one of the seo-description mode
SeoMode ==
  /\ nResult # NotCalled
  /\ (nContentType = "seo-description" \/ nStateType = "seo-description")

\* C15: in seo-description mode the result holds no markup: no "<" of the
\* result is followed, anywhere after it, by a ">"
C15_SeoHasNoMarkup ==
  SeoMode =>
    ~ \E i, j \in 1..Len(nResult) : i < j /\ nResult[i] = "<" /\ nResult[j] = ">"

\* C15: a call in seo-description mode on a response that holds a tag and
\* text, returning the text
C15_Witness ==
  /\ SeoMode
  /\ nResponse.text = <<"<", "b", ">", "a">>
  /\ nResult = <<"a">>

\* C16: in seo-description mode, normalizing the result again returns the
\* result, whatever the input
C16_SeoIdempotent ==
  SeoMode =>
    GetGeneratedText([type |-> "string", text |-> nResult],
                     "seo-description", "seo-description") = nResult

\* the text the content card displays outside edit mode, "absent" standing for
\* a card that is not rendered
Displayed(st) ==
  IF Truthy(st.apiResponse) THEN Or(st.editedContent, CurrentText(st)) ELSE <<"absent">>

\* C17: a Save from Editing, whatever the edited text (the empty one included),
\* leaves isEditing false and the generated content present and displayed, and
\* the content a Publish would send is the saved edited text
C17_SaveReturnsToSucceeded ==
  [][ pageToast' = ShowToast("saved", FALSE) =>
        /\ ~state'.isEditing
        /\ Truthy(state'.apiResponse)
        /\ Displayed(state') = state.editedContent
        /\ (state'.selectedItem # NoItem => ~NothingToPublish(state'))
        /\ Or(state'.editedContent, CurrentText(state')) = state.editedContent ]_vars

\* the hasAi flag of the kind in a row
HasAiFlag(row, kind) ==
  IF kind = "description" THEN row.hasAiDescription ELSE row.hasAiSeo
\* the original value of the kind in a row
RowOriginal(row, kind) ==
  IF kind = "description" THEN row.originalDescription ELSE row.originalSeoDescription
\* the last step called a revert handler
RevertCalled == dLast'.op \in {"already-reverted", "no-original", "submitted"}

\* C18: a call of Revert on a row for a kind submits a request only if the
\* row's hasAi flag of the kind is true, its original value of the kind is not
\* empty and its reverted flag of the kind is not set; when the hasAi flag is
\* false or the original value is empty, the error notice is raised and no
\* request is submitted
C18_RevertPreconditions ==
  [][ RevertCalled =>
        LET row == LastRow(rows)
            kind == dLast'.req.contentType
        IN /\ inflight' # inflight =>
                /\ HasAiFlag(row, kind)
                /\ RowOriginal(row, kind) # <<>>
                /\ ~RevertedFlag(row, kind)
           /\ (~HasAiFlag(row, kind) \/ RowOriginal(row, kind) = <<>>) =>
                /\ toast' = "error"
                /\ inflight' = inflight /\ reverting' = reverting
                /\ catalog' = catalog ]_vars

\* C18: Revert was called on the description of the product, whose record
\* holds an empty original: the error notice is up and nothing is in flight
C18_Witness ==
  /\ dLast.op = "no-original"
  /\ dLast.req.itemId = "p1" /\ dLast.req.contentType = "description"
  /\ \E i \in 1..Len(rows) :
       /\ rows[i].id = "p1" /\ rows[i].hasAiDescription
       /\ rows[i].originalDescription = <<>>
  /\ toast = "error" /\ inflight = <<>>

\* C19: when the exchange with the AI service fails, the error is the usage
\* limit message for a non-success answer with the rate-limit signal, the
\* message built from the service's message for any other non-success answer,
\* and the message of the exception for a network or parse failure; in the
\* three cases no content is staged and isLoading ends false
C19_GenerateErrorMapping ==
  [][ (gLast'.op = "generate-returned" /\ gLast'.outcome # "ok") =>
        /\ gLast'.outcome = "rate-limited" => state'.error = "usage-limit"
        /\ gLast'.outcome = "refused" => state'.error = "api-failed"
        /\ gLast'.outcome \in {"unparsable", "throws"} => state'.error = "exception"
        /\ state'.apiResponse = NoResponse /\ state'.editedContent = <<>>
        /\ ~state'.isLoading /\ pageToast' = NoToast ]_vars

\* C19: a generation the AI service answered with the rate-limit signal
C19_Witness ==
  /\ gLast.op = "generate-returned" /\ gLast.outcome = "rate-limited"
  /\ state.error = "usage-limit"
  /\ state.apiResponse = NoResponse /\ ~state.isLoading

\* the field of an input that holds every field the request carries
SpreadIfPresent(field) == IF field.present THEN Given(field.text) ELSE Absent

\* C20: the input of the mutation the action sends sets descriptionHtml
\* exactly when the request carries a description and the SEO description
\* exactly when it carries a seoDescription, and the catalog changes in no
\* field but the ones the request carries, of the item of the request
C20_InputCarriesRequestFields ==
  aInput # NoInput =>
    /\ aInput.id = aBody.itemId
    /\ aInput.descriptionHtml = SpreadIfPresent(aBody.description)
    /\ aInput.seo = SpreadIfPresent(aBody.seoDescription)
    /\ \A id \in ItemIds :
         /\ catalog[id].descriptionHtml # PublishedCatalog[id].descriptionHtml =>
              id = aBody.itemId /\ aBody.description.present
         /\ catalog[id].seo # PublishedCatalog[id].seo =>
              id = aBody.itemId /\ aBody.seoDescription.present

\* t: m, s: n
TwoErrorsJoined == <<"t", ":", " ", "m", ",", " ", "s", ":", " ", "n">>

\* C21: for a mutation that was sent, user errors of the catalog are answered
\* with success false and the joined "field: message" texts, no data with a
\* failure that carries no such text, and success true with the updated item
\* is answered only when there is data and the list of user errors is empty
C21_UpdateActionOutcomes ==
  aResult # NoResult =>
    /\ (aResult.kind = "data" /\ aResult.userErrors # <<>>) =>
         /\ ~aResponse.success /\ aResponse.status = 400
         /\ aResponse.error = JoinUserErrors(aResult.userErrors)
         /\ aResponse.updatedItem = NoUpdatedItem
    /\ aResult.kind = "no-data" =>
         /\ ~aResponse.success /\ aResponse.status = 500
         /\ aResponse.why = "no-data" /\ aResponse.error = <<>>
    /\ aResponse.success =>
         /\ aResult.kind = "data" /\ aResult.userErrors = <<>>
         /\ aResponse.updatedItem = ReturnedItem(catalog, aBody.itemId)

\* C21: the catalog reported two user errors and the action answered with the
\* two texts joined
C21_Witness ==
  /\ aResult.kind = "data" /\ Len(aResult.userErrors) = 2
  /\ ~aResponse.success /\ aResponse.error = TwoErrorsJoined

\* the last step called handlePublish
PublishCalled == gLast'.op \in {"publish-no-item", "publish-no-content", "publish-sent"}
\* a generated or an edited content value is present
ContentPresent(st) == Truthy(st.apiResponse) \/ st.editedContent # <<>>

\* C22: a call of Publish starts the exchange with the content store only when
\* an item is selected and a generated or edited content value is present;
\* otherwise it sets a validation error, leaves isPublishing false and starts
\* no exchange and posts no request
C22_PublishPreconditions ==
  [][ PublishCalled =>
        /\ (pubCall' # pubCall \/ state'.isPublishing) =>
             state.selectedItem # NoItem /\ ContentPresent(state)
        /\ (state.selectedItem = NoItem \/ ~ContentPresent(state)) =>
             /\ state'.error \in {"select-publish", "generate-first"}
             /\ ~state'.isPublishing
             /\ pubCall' = pubCall /\ updates' = updates /\ genCall' = genCall ]_vars

\* C22: Publish was called with content staged and no item selected
C22_Witness ==
  /\ gLast.op = "publish-no-item"
  /\ state.selectedItem = NoItem /\ Truthy(state.apiResponse)
  /\ state.error = "select-publish" /\ ~state.isPublishing /\ ~pubCall.running

\* the in-progress markers the dashboard may hold
Markers == { [id |-> id, kind |-> kind] : id \in ItemIds, kind \in {"description", "seo"} }

\* C23: when every exchange in flight returns, a Generate that set isLoading is
\* followed by a state where isLoading is false, a Publish that set
\* isPublishing by a state where isPublishing is false, and a Revert that set
\* the reverting marker of a row and kind by a state where that marker is not
\* set, whatever the outcomes of the exchanges
C23_MarkersAreCleared ==
  /\ state.isLoading ~> ~state.isLoading
  /\ state.isPublishing ~> ~state.isPublishing
  /\ \A m \in Markers : (reverting = m) ~> (reverting # m)

\* C23: a generation whose fetch threw has returned and isLoading is false
C23_Witness ==
  /\ gLast.op = "generate-returned" /\ gLast.outcome = "throws"
  /\ state.error = "exception" /\ ~state.isLoading /\ ~genCall.running

\* the number of nodes of the page that answers the request at after
Received(after) == Len(PageEdges(fSource, fPageSize, after))

C25_StagedForSelectedItem ==
  [][ (gLast'.op = "generate-returned" /\ genCall.itemId # state.selectedItem.id) =>
        (~Truthy(state'.apiResponse) /\ state'.editedContent = <<>>) ]_vars

\* C26: a selected item is of the session's page type in every state, and
\* every update request in flight pairs an item with the page type of its own
\* type
C26_SelectionMatchesPageType ==
  /\ state.selectedItem # NoItem => ItemType(state.selectedItem.id) = state.pageType
  /\ \A i \in 1..Len(updates) : ItemType(updates[i].itemId) = updates[i].pageType

\* C27: whenever generated content is staged and has not been edited, the
\* staged text is the normalization of the response in the mode of the
\* session's current content type, a change of the content type during the
\* generation included
C27_StagedInCurrentMode ==
  (state.apiResponse.type = "message" /\ ~state.isEditing) =>
    Or(state.editedContent, CurrentText(state)) = CurrentText(state)

\* C28: Cancel, pressed while editing, sets the staged content to the value it
\* had when Edit was pressed.  Cancel sets it to the normalization of the staged
\* response, which no edit changes, so the claim says that in every step that
\* enters Editing the value loaded into the edit field, the generated content
\* or the last saved edit, is that normalization
C28_CancelRestoresStaged ==
  [][ (~state.isEditing /\ state'.isEditing) =>
        /\ state'.editedContent = Displayed(state)
        /\ CurrentText(state') = Displayed(state) ]_vars

\* C29: in every state of the session isEditing is true only while generated
\* content is present
C29_EditingImpliesContent == state.isEditing => Truthy(state.apiResponse)

\* the rows a full reload of the dashboard would show
ReloadedRows == AllItems(catalog, store)

\* C30: after a revert the action answered with success, the reverted flag of
\* the kind in the row of the item is the flag a reload computes for that row
\* and kind from the catalog as the mutation left it and the stored records
C30_OptimisticAgreesWithReload ==
  dLast.op = "reverted" =>
    \A i \in 1..Len(rows) :
      rows[i].id = dLast.req.itemId =>
        \E j \in 1..Len(ReloadedRows) :
          /\ ReloadedRows[j].id = rows[i].id
          /\ RevertedFlag(ReloadedRows[j], dLast.req.contentType) =
               RevertedFlag(rows[i], dLast.req.contentType)

\* C30: the SEO description of the product was reverted with success, the row
\* flagged and the catalog holding the stored original
C30_Witness ==
  /\ dLast.op = "reverted"
  /\ dLast.req.itemId = "p1" /\ dLast.req.contentType = "seo"
  /\ catalog["p1"].seo = HelloWorld
  /\ \E i \in 1..Len(rows) : rows[i].id = "p1" /\ rows[i].isSeoReverted

=============================================================================
